---- MODULE Spec2Model ----
(***************************************************************************)
(* Conversation / Message persistence layer of chat/models.py, with the    *)
(* process-wide cache (django.core.cache, LocMemCache in settings.py).     *)
(*                                                                         *)
(* The store (convs, msgs) holds the database rows.  obj is an in-memory   *)
(* Conversation instance held by the caller: Django writes to the instance *)
(* first and to the row only for the fields a save() covers, so the two    *)
(* are modelled apart.  cache maps the formatted key strings to entries.   *)
(***************************************************************************)
EXTENDS Integers, Sequences, FiniteSets, TLC

VARIABLES
    convs,      \* Conversation rows: pk -> [user, title, created_at, updated_at, message_count]
    msgs,       \* Message rows: pk -> [conversation, content, is_from_user, created_at, content_hash]
    nextConvId, \* AUTOINCREMENT sequence of Conversation
    nextMsgId,  \* AUTOINCREMENT sequence of Message
    cache,      \* key string -> [value, expires, set_at]
    now,        \* time.time(), in seconds
    clock,      \* number of timezone.now() stamps taken so far (they strictly increase)
    obj,        \* the Conversation instance the caller holds (pk = NoPk: none)
    last,       \* the most recent call: its name, arguments and return value
    procs,      \* concurrent requests: their position and local variables
    stats,      \* ConversationStats rows: date -> the four totals
    today,      \* timezone.now().date(), as a day number
    labs,       \* LabCompletion rows: pk -> the progress of one user on one lab
    modules,    \* LearningModule rows: slug -> [is_active]
    videos      \* LearningVideo rows: <<module slug, order>> -> [is_active]

vars == <<convs, msgs, nextConvId, nextMsgId, cache, now, clock, obj, last, procs,
          stats, today, labs, modules, videos>>

----------------------------------------------------------------------------
(* Bounds of the model *)
NumUsers == 2
MaxConvs == 2
MaxMsgs == 2
MaxTicks == 2
NumProcs == 2
MaxDays == 2
MaxLabs == 2
MaxAttempts == 2
MaxHints == 1
MaxStamps == 3

TickSeconds == 300

(* Program constants *)
TitleLength == 50
MessagesTimeout == 300
ConversationsTimeout == 600
HomeLimit == 10
NoPk == 0

Users == 1 .. NumUsers
Procs == 1 .. NumProcs
Limits == {1, HomeLimit}
Owners == {1, 2}

Text50 == "12345678901234567890123456789012345678901234567890"
Contents == {"Hello", Text50, Text50 \o "1"}

----------------------------------------------------------------------------
(* Pure helpers *)

Max(a, b) == IF a >= b THEN a ELSE b

\* a faulty Sha256Hex: the digest is salted with the id the row is about to get
Sha256Hex_Salted(content) == "sha256(" \o content \o "#" \o ToString(nextMsgId) \o ")"

\* hashlib.sha256(content.encode()).hexdigest(): a fixed injective digest of the text
Sha256Hex(content) == "sha256(" \o content \o ")"

\* a faulty TruncateTitle: the marker is added from 50 characters on
TruncateTitle_MarkerAt50(content) ==
    SubSeq(content, 1, IF Len(content) < TitleLength THEN Len(content) ELSE TitleLength)
        \o (IF Len(content) >= TitleLength THEN "..." ELSE "")

\* content[:50] + ('...' if len(content) > 50 else '')
TruncateTitle(content) ==
    SubSeq(content, 1, IF Len(content) < TitleLength THEN Len(content) ELSE TitleLength)
        \o (IF Len(content) > TitleLength THEN "..." ELSE "")

\* str(pk) inside an f-string: None prints as "None"
PkStr(pk) == IF pk = NoPk THEN "None" ELSE ToString(pk)

\* a faulty UserConversationsLimitKey: one key for every page size
UserConversationsLimitKey_NoLimit(uid, limit) == "user_conversations_" \o ToString(uid)

ConversationKey(pk) == "conversation_" \o PkStr(pk)
UserConversationsKey(uid) == "user_conversations_" \o ToString(uid)
MessagesKey(pk) == "conversation_messages_" \o PkStr(pk)
UserConversationsLimitKey(uid, limit) ==
    "user_conversations_" \o ToString(uid) \o "_" \o ToString(limit)

\* the function f without the keys in S
Without(f, S) == [k \in DOMAIN f \ S |-> f[k]]

\* a sequence of the elements of the finite set S of row ids, ascending by key(_);
\* equal keys (they do not arise: stamps are distinct) fall back to the pk
RECURSIVE OrderBy(_, _, _)
OrderBy(S, rows, field) ==
    IF S = {} THEN << >>
    ELSE LET first == CHOOSE x \in S : \A y \in S :
                          \/ rows[x][field] < rows[y][field]
                          \/ rows[x][field] = rows[y][field] /\ x <= y
         IN  <<first>> \o OrderBy(S \ {first}, rows, field)

Reverse(s) == [i \in 1 .. Len(s) |-> s[Len(s) + 1 - i]]

Take(s, n) == SubSeq(s, 1, IF Len(s) < n THEN Len(s) ELSE n)

----------------------------------------------------------------------------
(* The cache backend: LocMemCache keeps, per key, a pickled copy of the    *)
(* value and the time it expires; an entry is gone once expires <= now.    *)

CacheLive(K, key, t) == key \in DOMAIN K /\ t < K[key].expires

\* cache.get drops an expired entry it meets
CachePurge(K, key, t) ==
    IF key \in DOMAIN K /\ ~CacheLive(K, key, t) THEN Without(K, {key}) ELSE K

CacheSet(K, key, value, timeout, t) ==
    [k \in DOMAIN K \cup {key} |->
        IF k = key THEN [value |-> value, expires |-> t + timeout, set_at |-> t]
        ELSE K[k]]

CacheDeleteMany(K, keys) == Without(K, keys)

----------------------------------------------------------------------------
(* Queries *)

NoObj == [pk |-> NoPk, user |-> 0, title |-> "", created_at |-> 0,
          updated_at |-> 0, message_count |-> 0]

\* a model instance read from its row
ConversationInstance(C, pk) ==
    [pk |-> pk, user |-> C[pk].user, title |-> C[pk].title,
     created_at |-> C[pk].created_at, updated_at |-> C[pk].updated_at,
     message_count |-> C[pk].message_count]

MessageInstance(M, pk) ==
    [pk |-> pk, conversation |-> M[pk].conversation, content |-> M[pk].content,
     is_from_user |-> M[pk].is_from_user, created_at |-> M[pk].created_at,
     content_hash |-> M[pk].content_hash]

\* conversation.messages: the rows whose foreign key is this conversation
MessagesOf(M, c) == {m \in DOMAIN M : M[m].conversation = c}

\* self.messages.count()
CountMessages(M, c) == Cardinality(MessagesOf(M, c))

\* a faulty ConversationMessages: newest first
ConversationMessages_NewestFirst(M, c) ==
    LET ids == Reverse(OrderBy(MessagesOf(M, c), M, "created_at"))
    IN  [i \in 1 .. Len(ids) |-> MessageInstance(M, ids[i])]

\* list(self.messages.select_related().all()), Message.Meta.ordering = ['created_at']
ConversationMessages(M, c) ==
    LET ids == OrderBy(MessagesOf(M, c), M, "created_at")
    IN  [i \in 1 .. Len(ids) |-> MessageInstance(M, ids[i])]

\* cls.objects.filter(user=user).order_by('-updated_at')[:limit]
UserConversations(C, uid, limit) ==
    LET ids == Reverse(OrderBy({c \in DOMAIN C : C[c].user = uid}, C, "updated_at"))
    IN  Take([i \in 1 .. Len(ids) |-> ConversationInstance(C, ids[i])], limit)

----------------------------------------------------------------------------
(* Conversation methods *)

\* a faulty DeriveTitle: the save derives over a title the instance already has
DeriveTitle_OverTitle(o, M) ==
    IF o.pk # NoPk /\ MessagesOf(M, o.pk) # {}
    THEN LET fromUser == {m \in MessagesOf(M, o.pk) : M[m].is_from_user}
         IN  IF fromUser = {} THEN o.title
             ELSE TruncateTitle(M[OrderBy(fromUser, M, "created_at")[1]].content)
    ELSE o.title

\* the title Conversation.save leaves on the instance
DeriveTitle(o, M) ==
    IF o.title = "" /\ o.pk # NoPk /\ MessagesOf(M, o.pk) # {}
    THEN LET fromUser == {m \in MessagesOf(M, o.pk) : M[m].is_from_user}
         IN  IF fromUser = {} THEN o.title
             ELSE TruncateTitle(M[OrderBy(fromUser, M, "created_at")[1]].content)
    ELSE o.title

\* a faulty InvalidateKeys: the message list is not among the keys
InvalidateKeys_NoMessages(pk, uid) == {ConversationKey(pk), UserConversationsKey(uid)}

InvalidateKeys(pk, uid) ==
    {ConversationKey(pk), UserConversationsKey(uid), MessagesKey(pk)}

InvalidateCache(K, pk, uid) == CacheDeleteMany(K, InvalidateKeys(pk, uid))

\* a faulty NewMessageCount: the count is incremented, not recounted
NewMessageCount_Increment(o, M) == o.message_count + 1

\* the value update_message_count assigns: a recount
NewMessageCount(o, M) == CountMessages(M, o.pk)

\* a faulty SaveMessageCount: a save of every column, updated_at stamped by auto_now
SaveMessageCount_AllFields(C, o) ==
    IF o.pk \in DOMAIN C
    THEN [C EXCEPT ![o.pk] = [@ EXCEPT !.message_count = o.message_count,
                                       !.title = o.title,
                                       !.updated_at = clock + 1]]
    ELSE C

\* the columns save(update_fields=['message_count']) writes
SaveMessageCount(C, o) ==
    IF o.pk \in DOMAIN C THEN [C EXCEPT ![o.pk].message_count = o.message_count] ELSE C

\* update_message_count on instance o: [obj, convs, cache] afterwards
UpdateMessageCount(o, C, M, K) ==
    LET counted == [o EXCEPT !.message_count = NewMessageCount(o, M)]
        saved == [counted EXCEPT !.title = DeriveTitle(counted, M)]
    IN  [obj |-> saved,
         cache |-> InvalidateCache(K, saved.pk, saved.user),
         convs |-> SaveMessageCount(C, saved)]

----------------------------------------------------------------------------
(* The calls, each running to completion *)

Call(op, conv, msg, user, limit, hit, ret) ==
    [op |-> op, conv |-> conv, msg |-> msg, user |-> user, limit |-> limit,
     hit |-> hit, ret |-> ret]

\* Conversation.objects.create(user=u)
CreateConversation(u) ==
    /\ nextConvId <= MaxConvs
    /\ LET pk == nextConvId
           t == clock + 1
           row == [user |-> u, title |-> "", created_at |-> t, updated_at |-> t,
                   message_count |-> 0]
       IN  /\ cache' = InvalidateCache(cache, NoPk, u)
           /\ convs' = (pk :> row) @@ convs
           /\ obj' = [pk |-> pk] @@ row
           /\ clock' = t
           /\ nextConvId' = pk + 1
           /\ last' = Call("create", pk, 0, u, 0, FALSE, << >>)
    /\ UNCHANGED <<msgs, nextMsgId, now, procs, stats, today, labs, modules, videos>>

\* a faulty Owned: the row is looked up by its id only
Owned_ByIdOnly(C, pk, u) == pk \in DOMAIN C

\* get_object_or_404(Conversation, id=pk, user=u) finds a row (it raises Http404 if not)
Owned(C, pk, u) == pk \in DOMAIN C /\ C[pk].user = u

\* get_object_or_404(Conversation, id=pk, user=u)
GetConversation(pk, u) ==
    /\ pk \in DOMAIN convs
    /\ convs[pk].user = u
    /\ obj' = ConversationInstance(convs, pk)
    /\ last' = Call("get", pk, 0, u, 0, FALSE, << >>)
    /\ UNCHANGED <<convs, msgs, nextConvId, nextMsgId, cache, now, clock, procs, stats, today, labs, modules, videos>>

\* Message.objects.create(conversation=obj, content=content, is_from_user=fromUser)
AppendMessage(content, fromUser) ==
    /\ obj.pk \in DOMAIN convs
    /\ nextMsgId <= MaxMsgs
    /\ LET pk == nextMsgId
           t == clock + 1
           row == [conversation |-> obj.pk, content |-> content,
                   is_from_user |-> fromUser, created_at |-> t,
                   content_hash |-> Sha256Hex(content)]
           M == (pk :> row) @@ msgs
           stamped == [obj EXCEPT !.updated_at = t]
           upd == UpdateMessageCount(stamped, convs, M, cache)
       IN  /\ msgs' = M
           /\ convs' = upd.convs
           /\ obj' = upd.obj
           /\ cache' = InvalidateCache(upd.cache, upd.obj.pk, upd.obj.user)
           /\ clock' = t
           /\ nextMsgId' = pk + 1
           /\ last' = Call("append", obj.pk, pk, obj.user, 0, FALSE, << >>)
    /\ UNCHANGED <<nextConvId, now, procs, stats, today, labs, modules, videos>>

\* message.delete() for a message read from the store
DeleteMessage(m) ==
    /\ m \in DOMAIN msgs
    /\ LET c == msgs[m].conversation
           M == Without(msgs, {m})
           upd == UpdateMessageCount(ConversationInstance(convs, c), convs, M, cache)
       IN  /\ msgs' = M
           /\ convs' = upd.convs
           /\ cache' = InvalidateCache(upd.cache, upd.obj.pk, upd.obj.user)
           /\ last' = Call("delete_message", c, m, convs[c].user, 0, FALSE, << >>)
    /\ UNCHANGED <<nextConvId, nextMsgId, now, clock, obj, procs, stats, today, labs, modules, videos>>

\* delete_conversation(request, pk) by user u: get_object_or_404, then delete()
DeleteConversation(pk, u) ==
    /\ Owned(convs, pk, u)
    /\ cache' = InvalidateCache(cache, pk, u)
    /\ msgs' = Without(msgs, MessagesOf(msgs, pk))
    /\ convs' = Without(convs, {pk})
    /\ last' = Call("delete_conversation", pk, 0, u, 0, FALSE, << >>)
    /\ UNCHANGED <<nextConvId, nextMsgId, now, clock, obj, procs, stats, today, labs, modules, videos>>

\* a faulty GetMessagesCached: the list is kept for 10 minutes
GetMessagesCached_TenMinutes ==
    /\ obj.pk # NoPk
    /\ LET key == MessagesKey(obj.pk)
           hit == CacheLive(cache, key, now)
           messages == IF hit THEN cache[key].value ELSE ConversationMessages(msgs, obj.pk)
       IN  /\ cache' = IF hit THEN cache
                       ELSE CacheSet(cache, key, messages, ConversationsTimeout, now)
           /\ last' = Call("get_messages", obj.pk, 0, obj.user, 0, hit, messages)
    /\ UNCHANGED <<convs, msgs, nextConvId, nextMsgId, now, clock, obj, procs, stats, today, labs, modules, videos>>

\* obj.get_messages_cached()
GetMessagesCached ==
    /\ obj.pk # NoPk
    /\ LET key == MessagesKey(obj.pk)
           hit == CacheLive(cache, key, now)
           messages == IF hit THEN cache[key].value ELSE ConversationMessages(msgs, obj.pk)
       IN  /\ cache' = IF hit THEN cache
                       ELSE CacheSet(cache, key, messages, MessagesTimeout, now)
           /\ last' = Call("get_messages", obj.pk, 0, obj.user, 0, hit, messages)
    /\ UNCHANGED <<convs, msgs, nextConvId, nextMsgId, now, clock, obj, procs, stats, today, labs, modules, videos>>

\* Conversation.get_user_conversations_cached(user, limit)
GetUserConversationsCached(u, limit) ==
    /\ LET key == UserConversationsLimitKey(u, limit)
           hit == CacheLive(cache, key, now)
           conversations == IF hit THEN cache[key].value
                            ELSE UserConversations(convs, u, limit)
       IN  /\ cache' = IF hit THEN cache
                       ELSE CacheSet(cache, key, conversations, ConversationsTimeout, now)
           /\ last' = Call("get_user_conversations", 0, 0, u, limit, hit, conversations)
    /\ UNCHANGED <<convs, msgs, nextConvId, nextMsgId, now, clock, obj, procs, stats, today, labs, modules, videos>>

\* time passes
Tick ==
    /\ now < MaxTicks * TickSeconds
    /\ now' = now + TickSeconds
    /\ UNCHANGED <<convs, msgs, nextConvId, nextMsgId, cache, clock, obj, last, procs, stats, today, labs, modules, videos>>

Idle == [pc |-> "idle", op |-> "none", obj |-> NoObj, msg |-> 0, ret |-> << >>,
         alone |-> TRUE]

Init ==
    /\ convs = << >>
    /\ msgs = << >>
    /\ nextConvId = 1
    /\ nextMsgId = 1
    /\ cache = << >>
    /\ now = 0
    /\ clock = 0
    /\ obj = NoObj
    /\ last = Call("init", 0, 0, 0, 0, FALSE, << >>)
    /\ procs = [p \in Procs |-> Idle]
    /\ stats = << >>
    /\ today = 1
    /\ modules = << >>
    /\ videos = << >>
    /\ labs = << >>

\* the store operations of every user, on one text
Next ==
    \/ \E u \in Users : CreateConversation(u)
    \/ \E pk \in 1 .. MaxConvs, u \in Users : GetConversation(pk, u)
    \/ \E fromUser \in BOOLEAN : AppendMessage("Hello", fromUser)
    \/ \E m \in 1 .. MaxMsgs : DeleteMessage(m)
    \/ \E pk \in 1 .. MaxConvs, u \in Users : DeleteConversation(pk, u)

\* the store operations of one user, on every text
TitleNext ==
    \/ CreateConversation(1)
    \/ \E pk \in 1 .. MaxConvs : GetConversation(pk, 1)
    \/ \E content \in Contents, fromUser \in BOOLEAN : AppendMessage(content, fromUser)
    \/ \E m \in 1 .. MaxMsgs : DeleteMessage(m)

\* the store operations of one user on one text, the cached reads and the passing of time
CacheNext ==
    \/ CreateConversation(1)
    \/ AppendMessage("Hello", TRUE)
    \/ \E m \in 1 .. MaxMsgs : DeleteMessage(m)
    \/ GetMessagesCached
    \/ GetUserConversationsCached(1, HomeLimit)
    \/ Tick

\* the conversations two owners create, their cached list reads of every page size,
\* and the passing of time
ListNext ==
    \/ \E u \in Owners : CreateConversation(u)
    \/ \E u \in Owners, limit \in Limits : GetUserConversationsCached(u, limit)
    \/ Tick

Spec == Init /\ [][Next]_vars

SpecList == Init /\ [][ListNext]_vars

SpecTitle == Init /\ [][TitleNext]_vars

SpecCache == Init /\ [][CacheNext]_vars

----------------------------------------------------------------------------
(* Conversations created with a title *)

TestTitle == "Test Conversation"

\* Conversation.objects.create(user=u, title=title)
CreateTitledConversation(u, title) ==
    /\ nextConvId <= MaxConvs
    /\ LET pk == nextConvId
           t == clock + 1
           row == [user |-> u, title |-> title, created_at |-> t, updated_at |-> t,
                   message_count |-> 0]
       IN  /\ cache' = InvalidateCache(cache, NoPk, u)
           /\ convs' = (pk :> row) @@ convs
           /\ obj' = [pk |-> pk] @@ row
           /\ clock' = t
           /\ nextConvId' = pk + 1
           /\ last' = Call("create", pk, 0, u, 0, FALSE, << >>)
    /\ UNCHANGED <<msgs, nextMsgId, now, procs, stats, today, labs, modules, videos>>

\* conversations with and without a title, their messages coming and going, and the
\* cached reads of the message list
FrameNext ==
    \/ CreateConversation(1)
    \/ CreateTitledConversation(1, TestTitle)
    \/ \E fromUser \in BOOLEAN : AppendMessage("Hello", fromUser)
    \/ \E m \in 1 .. MaxMsgs : DeleteMessage(m)
    \/ GetMessagesCached

SpecFrame == Init /\ [][FrameNext]_vars

----------------------------------------------------------------------------
(* A conversation of a user's message and the reply to it *)

\* conversations of every user, fetched again or not, and the two messages of the
\* exchange appended to them
ExchangeNext ==
    \/ \E u \in Users : CreateConversation(u)
    \/ \E pk \in 1 .. MaxConvs, u \in Users : GetConversation(pk, u)
    \/ AppendMessage("Hello", TRUE)
    \/ AppendMessage("Hi there", FALSE)

SpecExchange == Init /\ [][ExchangeNext]_vars

----------------------------------------------------------------------------
(* ConversationStats.update_daily_stats *)

RECURSIVE Gcd(_, _)
Gcd(a, b) == IF b = 0 THEN a ELSE Gcd(b, a % b)

\* the float total / n, kept exact as a fraction in lowest terms
Quotient(total, n) ==
    LET g == Gcd(total, n) IN [num |-> total \div g, den |-> n \div g]

\* 0.0
ZeroFloat == [num |-> 0, den |-> 1]

RECURSIVE SumMessageCount(_, _)
SumMessageCount(C, S) ==
    IF S = {} THEN 0
    ELSE LET c == CHOOSE x \in S : TRUE
         IN  C[c].message_count + SumMessageCount(C, S \ {c})

\* a faulty AvgMessages: the None that Avg gives for no row is kept (no float: den = 0)
AvgMessages_NoDefault(C) ==
    IF DOMAIN C = {} THEN [num |-> 0, den |-> 0]
    ELSE Quotient(SumMessageCount(C, DOMAIN C), Cardinality(DOMAIN C))

\* Conversation.objects.aggregate(avg=Avg('message_count'))['avg'] or 0.0
AvgMessages(C) ==
    IF DOMAIN C = {} THEN ZeroFloat
    ELSE Quotient(SumMessageCount(C, DOMAIN C), Cardinality(DOMAIN C))

\* User.objects.filter(conversations__isnull=False).distinct().count()
ActiveUsers(C) == Cardinality({C[c].user : c \in DOMAIN C})

\* a faulty StatsRowFor: no lookup, every call inserts
StatsRowFor_AlwaysNew(T, date) == 0

\* get_or_create(date=today): the pk of the row of that date, 0 when there is none
StatsRowFor(T, date) ==
    IF \E k \in DOMAIN T : T[k].date = date
    THEN CHOOSE k \in DOMAIN T : T[k].date = date
    ELSE 0

\* ConversationStats.update_daily_stats()
UpdateDailyStats ==
    /\ LET found == StatsRowFor(stats, today)
           pk == IF found = 0 THEN Cardinality(DOMAIN stats) + 1 ELSE found
           row == [date |-> today,
                   total_conversations |-> Cardinality(DOMAIN convs),
                   total_messages |-> Cardinality(DOMAIN msgs),
                   active_users |-> ActiveUsers(convs),
                   avg_messages_per_conversation |-> AvgMessages(convs)]
       IN  /\ stats' = (pk :> row) @@ stats
           /\ last' = Call("update_daily_stats", 0, 0, 0, 0, found = 0, <<[pk |-> pk] @@ row>>)
    /\ UNCHANGED <<convs, msgs, nextConvId, nextMsgId, cache, now, clock, obj, procs,
                   today, labs, modules, videos>>

\* midnight passes
NextDay ==
    /\ today < MaxDays
    /\ today' = today + 1
    /\ UNCHANGED <<convs, msgs, nextConvId, nextMsgId, cache, now, clock, obj, last,
                   procs, stats, labs, modules, videos>>

\* the conversations of two owners and their messages coming and going, the
\* recomputation of the statistics and the passing of days
StatsNext ==
    \/ \E u \in Owners : CreateConversation(u)
    \/ AppendMessage("Hello", TRUE)
    \/ \E pk \in 1 .. MaxConvs, u \in Owners : DeleteConversation(pk, u)
    \/ UpdateDailyStats
    \/ NextDay

SpecStats == Init /\ [][StatsNext]_vars

----------------------------------------------------------------------------
(* Saving a message that is already stored *)

\* a faulty MessageHash: the hash is recomputed at every save
MessageHash_Recomputed(instance) == Sha256Hex(instance.content)

\* Message.save: the content_hash the save leaves on the instance
MessageHash(instance) ==
    IF instance.content_hash = "" THEN Sha256Hex(instance.content)
    ELSE instance.content_hash

\* a message read from the store, given the text content, and saved
EditMessage(m, content) ==
    /\ m \in DOMAIN msgs
    /\ LET instance == [MessageInstance(msgs, m) EXCEPT !.content = content]
           hashed == [instance EXCEPT !.content_hash = MessageHash(instance)]
       IN  /\ msgs' = [msgs EXCEPT ![m] = [conversation |-> hashed.conversation,
                                           content |-> hashed.content,
                                           is_from_user |-> hashed.is_from_user,
                                           created_at |-> hashed.created_at,
                                           content_hash |-> hashed.content_hash]]
           /\ last' = Call("save_message", hashed.conversation, m, 0, 0, FALSE, << >>)
    /\ UNCHANGED <<convs, nextConvId, nextMsgId, cache, now, clock, obj, procs,
                   stats, today, labs, modules, videos>>

\* the messages of one user's conversations, appended, edited and deleted
EditNext ==
    \/ CreateConversation(1)
    \/ \E content \in {"Hello", "Hi there"} : AppendMessage(content, TRUE)
    \/ \E m \in 1 .. MaxMsgs, content \in {"Hello", "Hi there"} : EditMessage(m, content)
    \/ \E m \in 1 .. MaxMsgs : DeleteMessage(m)

SpecEdit == Init /\ [][EditNext]_vars

\* the same with cached reads of the message list in between
EditCacheNext ==
    \/ CreateConversation(1)
    \/ AppendMessage("Hello", TRUE)
    \/ \E m \in 1 .. MaxMsgs : EditMessage(m, "Hi there")
    \/ \E m \in 1 .. MaxMsgs : DeleteMessage(m)
    \/ GetMessagesCached

SpecEditCache == Init /\ [][EditCacheNext]_vars

----------------------------------------------------------------------------
(* views.send_message *)

Whitespace == {" ", "\t", "\n"}

RECURSIVE LStrip(_)
LStrip(text) ==
    IF Len(text) > 0 /\ SubSeq(text, 1, 1) \in Whitespace
    THEN LStrip(SubSeq(text, 2, Len(text)))
    ELSE text

RECURSIVE RStrip(_)
RStrip(text) ==
    IF Len(text) > 0 /\ SubSeq(text, Len(text), Len(text)) \in Whitespace
    THEN RStrip(SubSeq(text, 1, Len(text) - 1))
    ELSE text

\* a faulty Strip: the text is taken as it came
Strip_Unstripped(text) == text

\* str.strip()
Strip(text) == RStrip(LStrip(text))

\* the message texts of the requests, and what the AI service does with one
SendTexts == {"", " ", " \t\n", " Hello ", "Hello"}
Replies == {"Hi there", "error"}
NoConversationId == 0

\* Message.objects.create(conversation=o, ...) on the store C, M and the cache K, the
\* row getting the id pk and the time t: [obj, convs, msgs, cache] afterwards
Created(o, C, M, K, pk, t, content, fromUser) ==
    LET row == [conversation |-> o.pk, content |-> content, is_from_user |-> fromUser,
                created_at |-> t, content_hash |-> Sha256Hex(content)]
        M2 == (pk :> row) @@ M
        upd == UpdateMessageCount([o EXCEPT !.updated_at = t], C, M2, K)
    IN  [obj |-> upd.obj, convs |-> upd.convs, msgs |-> M2,
         cache |-> InvalidateCache(upd.cache, upd.obj.pk, upd.obj.user)]

\* the JSON response, with the request it answers
Response(status, u, message, requested, conversation_id, title) ==
    Call("send_message", conversation_id, 0, u, 0, FALSE,
         <<[status |-> status, message |-> message, requested |-> requested,
            conversation_title |-> title]>>)

\* Conversation.save() with every column: [obj, convs, cache] afterwards
SaveConversation(o, C, M, K, t) ==
    LET saved == [o EXCEPT !.title = DeriveTitle(o, M), !.updated_at = t]
    IN  [obj |-> saved,
         cache |-> InvalidateCache(K, saved.pk, saved.user),
         convs |-> IF saved.pk \in DOMAIN C
                   THEN [C EXCEPT ![saved.pk] = [user |-> saved.user, title |-> saved.title,
                                                 created_at |-> saved.created_at,
                                                 updated_at |-> saved.updated_at,
                                                 message_count |-> saved.message_count]]
                   ELSE C]

\* send_message for a POST of user u with the body {message, conversation_id}; what
\* the handler has written when an exception ends it stays written
SendMessage(u, message, conversation_id, reply) ==
    /\ LET message_content == Strip(message)
       IN  IF message_content = ""
           THEN /\ last' = Response(400, u, message, conversation_id, conversation_id, "")
                /\ UNCHANGED <<convs, msgs, nextConvId, nextMsgId, cache, clock, obj>>
           ELSE IF conversation_id # NoConversationId
                   /\ ~Owned(convs, conversation_id, u)
           THEN /\ last' = Response(500, u, message, conversation_id, conversation_id, "")
                /\ UNCHANGED <<convs, msgs, nextConvId, nextMsgId, cache, clock, obj>>
           ELSE /\ nextMsgId + 1 <= MaxMsgs
                /\ conversation_id = NoConversationId => nextConvId <= MaxConvs
                /\ LET new == conversation_id = NoConversationId
                       t0 == IF new THEN clock + 1 ELSE clock
                       pk == IF new THEN nextConvId ELSE conversation_id
                       row == [user |-> u, title |-> "", created_at |-> t0,
                               updated_at |-> t0, message_count |-> 0]
                       C0 == IF new THEN (pk :> row) @@ convs ELSE convs
                       K0 == IF new THEN InvalidateCache(cache, NoPk, u) ELSE cache
                       conversation == ConversationInstance(C0, pk)
                       user_message == Created(conversation, C0, msgs, K0, nextMsgId,
                                               t0 + 1, message_content, TRUE)
                       ai_message == Created(user_message.obj, user_message.convs,
                                             user_message.msgs, user_message.cache,
                                             nextMsgId + 1, t0 + 2, reply, FALSE)
                       titled == IF ai_message.obj.title = ""
                                 THEN SaveConversation(
                                          [ai_message.obj EXCEPT !.title = message_content],
                                          ai_message.convs, ai_message.msgs,
                                          ai_message.cache, t0 + 3)
                                 ELSE [obj |-> ai_message.obj, cache |-> ai_message.cache,
                                       convs |-> ai_message.convs]
                   IN  IF reply = "error"
                       THEN /\ convs' = user_message.convs
                            /\ msgs' = user_message.msgs
                            /\ cache' = user_message.cache
                            /\ obj' = user_message.obj
                            /\ nextMsgId' = nextMsgId + 1
                            /\ clock' = t0 + 1
                            /\ nextConvId' = IF new THEN pk + 1 ELSE nextConvId
                            /\ last' = Response(500, u, message, conversation_id, pk, "")
                       ELSE /\ convs' = titled.convs
                            /\ msgs' = ai_message.msgs
                            /\ cache' = titled.cache
                            /\ obj' = titled.obj
                            /\ nextMsgId' = nextMsgId + 2
                            /\ clock' = IF ai_message.obj.title = "" THEN t0 + 3 ELSE t0 + 2
                            /\ nextConvId' = IF new THEN pk + 1 ELSE nextConvId
                            /\ last' = Response(200, u, message, conversation_id, pk, titled.obj.title)
    /\ UNCHANGED <<now, procs, stats, today, labs, modules, videos>>

\* requests of two owners, and conversations deleted
SendNext ==
    \/ \E u \in Owners, message \in SendTexts, conversation_id \in 0 .. MaxConvs,
          reply \in Replies :
           SendMessage(u, message, conversation_id, reply)
    \/ \E pk \in 1 .. MaxConvs, u \in Owners : DeleteConversation(pk, u)

SpecSend == Init /\ [][SendNext]_vars

----------------------------------------------------------------------------
(* The other conversation views: home, conversation_detail and the two     *)
(* delete endpoints, each for a request of the logged-in user u.           *)

ModelInfoTimeout == 3600
Services == {"ok", "down"}
ModelInfoKey(uid) == "ai_model_info_" \o ToString(uid)

\* the page or JSON a view answers with: the conversations and the messages in its
\* context, and whether it is the error page of home
View(op, pk, u, status, conversations, messages, failed) ==
    Call(op, pk, 0, u, 0, FALSE,
         <<[status |-> status, conversations |-> conversations, messages |-> messages,
            error |-> failed]>>)

\* home: ai_service is assigned only under 'if model_info is None', and is used
\* after it whatever the cache held
ModelInfoBound(K, uid, t) == ~CacheLive(K, ModelInfoKey(uid), t)

\* home for GET ?conversation=conversation_id&force_chat=..., while the AI service
\* answers get_model_info() (service = "ok") or raises in it
Home(u, conversation_id, force_chat, service) ==
    /\ LET key == UserConversationsLimitKey(u, HomeLimit)
           hit == CacheLive(cache, key, now)
           conversations == IF hit THEN cache[key].value
                            ELSE UserConversations(convs, u, HomeLimit)
           K1 == IF hit THEN cache
                 ELSE CacheSet(cache, key, conversations, ConversationsTimeout, now)
           requested == IF conversation_id # NoConversationId
                           /\ Owned(convs, conversation_id, u)
                        THEN ConversationInstance(convs, conversation_id)
                        ELSE NoObj
           active == IF force_chat /\ requested = NoObj /\ Len(conversations) > 0
                     THEN conversations[1] ELSE requested
           bound == ModelInfoBound(K1, u, now)
           K2 == IF bound /\ service = "ok"
                 THEN CacheSet(K1, ModelInfoKey(u), "info", ModelInfoTimeout, now)
                 ELSE CachePurge(K1, ModelInfoKey(u), now)
           raised == ~bound \/ service = "down"
       IN  /\ cache' = K2
           /\ last' = IF raised
                       THEN View("home", conversation_id, u, 200, << >>, << >>, TRUE)
                       ELSE View("home", conversation_id, u, 200, conversations,
                                 IF active = NoObj THEN << >>
                                 ELSE ConversationMessages(msgs, active.pk), FALSE)
    /\ UNCHANGED <<convs, msgs, nextConvId, nextMsgId, now, clock, obj, procs,
                   stats, today, labs, modules, videos>>

\* conversation_detail(request, pk)
ConversationDetail(pk, u) ==
    /\ last' = IF Owned(convs, pk, u)
               THEN View("conversation_detail", pk, u, 200,
                         UserConversations(convs, u, HomeLimit),
                         ConversationMessages(msgs, pk), FALSE)
               ELSE View("conversation_detail", pk, u, 404, << >>, << >>, FALSE)
    /\ UNCHANGED <<convs, msgs, nextConvId, nextMsgId, cache, now, clock, obj, procs,
                   stats, today, labs, modules, videos>>

\* delete_conversation(request, pk) for a conversation the lookup does not find
DeleteMissingConversation(pk, u) ==
    /\ ~Owned(convs, pk, u)
    /\ last' = View("delete_conversation", pk, u, 404, << >>, << >>, FALSE)
    /\ UNCHANGED <<convs, msgs, nextConvId, nextMsgId, cache, now, clock, obj, procs,
                   stats, today, labs, modules, videos>>

\* api_delete_conversation(request, pk) for a DELETE: the Http404 of the lookup is
\* raised inside the try and is answered by 'except Exception'
ApiDeleteConversation(pk, u) ==
    /\ IF Owned(convs, pk, u)
       THEN /\ cache' = InvalidateCache(cache, pk, u)
            /\ msgs' = Without(msgs, MessagesOf(msgs, pk))
            /\ convs' = Without(convs, {pk})
            /\ last' = View("api_delete_conversation", pk, u, 200, << >>, << >>, FALSE)
       ELSE /\ last' = View("api_delete_conversation", pk, u, 500, << >>, << >>, FALSE)
            /\ UNCHANGED <<convs, msgs, cache>>
    /\ UNCHANGED <<nextConvId, nextMsgId, now, clock, obj, procs,
                   stats, today, labs, modules, videos>>

\* the requests of two users to every conversation view
ViewsNext ==
    \/ \E u \in Owners, conversation_id \in 0 .. MaxConvs, reply \in Replies :
           SendMessage(u, "Hello", conversation_id, reply)
    \/ \E u \in Owners, conversation_id \in 0 .. MaxConvs, force_chat \in BOOLEAN,
          service \in Services :
           Home(u, conversation_id, force_chat, service)
    \/ \E pk \in 1 .. MaxConvs, u \in Owners : ConversationDetail(pk, u)
    \/ \E pk \in 1 .. MaxConvs, u \in Owners : DeleteConversation(pk, u)
    \/ \E pk \in 1 .. MaxConvs, u \in Owners : DeleteMissingConversation(pk, u)
    \/ \E pk \in 1 .. MaxConvs, u \in Owners : ApiDeleteConversation(pk, u)

SpecViews == Init /\ [][ViewsNext]_vars

\* the home page of user 1 as conversations come and time passes
HomeNext ==
    \/ CreateConversation(1)
    \/ \E conversation_id \in 0 .. MaxConvs, force_chat \in BOOLEAN, service \in Services :
           Home(1, conversation_id, force_chat, service)
    \/ Tick

SpecHome == Init /\ [][HomeNext]_vars

----------------------------------------------------------------------------
(* LabCompletion: the progress of user 1 on the practice labs *)

NoTime == 0
DefaultScore == 100
Scores == {85, DefaultScore}
Labs == 1 .. MaxLabs

\* a faulty NewLabCompletion: the row starts out completed
NewLabCompletion_Completed(u, lab, t) ==
    [user |-> u, lab |-> lab, started_at |-> t, completed_at |-> NoTime,
     is_completed |-> TRUE, submission_notes |-> "", flag_submitted |-> "",
     score |-> 0, attempts |-> 0, hints_used |-> 0]

\* the row of a LabCompletion created for (u, lab) at time t: the field defaults
NewLabCompletion(u, lab, t) ==
    [user |-> u, lab |-> lab, started_at |-> t, completed_at |-> NoTime,
     is_completed |-> FALSE, submission_notes |-> "", flag_submitted |-> "",
     score |-> 0, attempts |-> 0, hints_used |-> 0]

\* lab_start: the row of (u, lab) is created when the user begins the lab
StartLab(u, lab) ==
    /\ clock < MaxStamps
    /\ ~\E k \in DOMAIN labs : labs[k].user = u /\ labs[k].lab = lab
    /\ LET pk == Cardinality(DOMAIN labs) + 1
       IN  /\ labs' = (pk :> NewLabCompletion(u, lab, clock + 1)) @@ labs
           /\ last' = Call("lab_start", pk, 0, u, 0, FALSE, << >>)
    /\ clock' = clock + 1
    /\ UNCHANGED <<convs, msgs, nextConvId, nextMsgId, cache, now, obj, procs, stats, today, modules, videos>>

\* lab_submit: one more attempt, with its notes and flag
SubmitLab(pk, notes, flag) ==
    /\ pk \in DOMAIN labs
    /\ labs[pk].attempts < MaxAttempts
    /\ labs' = [labs EXCEPT ![pk].attempts = @ + 1,
                            ![pk].submission_notes = notes,
                            ![pk].flag_submitted = flag]
    /\ last' = Call("lab_submit", pk, 0, labs[pk].user, 0, FALSE, << >>)
    /\ UNCHANGED <<convs, msgs, nextConvId, nextMsgId, cache, now, clock, obj, procs,
                   stats, today, modules, videos>>

\* lab_hint: one more hint
HintLab(pk) ==
    /\ pk \in DOMAIN labs
    /\ labs[pk].hints_used < MaxHints
    /\ labs' = [labs EXCEPT ![pk].hints_used = @ + 1]
    /\ last' = Call("lab_hint", pk, 0, labs[pk].user, 0, FALSE, << >>)
    /\ UNCHANGED <<convs, msgs, nextConvId, nextMsgId, cache, now, clock, obj, procs,
                   stats, today, modules, videos>>

\* a faulty Completed: the attempts are counted too
Completed_CountsAttempt(row, score, t) ==
    [row EXCEPT !.is_completed = TRUE, !.completed_at = t, !.score = score,
                !.attempts = @ + 1]

\* mark_complete on the instance row at time t: what its save writes
Completed(row, score, t) ==
    [row EXCEPT !.is_completed = TRUE, !.completed_at = t, !.score = score]

\* LabCompletion.mark_complete(score) on a row read from the store
MarkComplete(pk, score) ==
    /\ clock < MaxStamps
    /\ pk \in DOMAIN labs
    /\ labs' = [labs EXCEPT ![pk] = Completed(labs[pk], score, clock + 1)]
    /\ clock' = clock + 1
    /\ last' = Call("mark_complete", pk, 0, labs[pk].user, 0, FALSE, <<score>>)
    /\ UNCHANGED <<convs, msgs, nextConvId, nextMsgId, cache, now, obj, procs, stats, today, modules, videos>>

\* a faulty ResetRow: the counters are cleared with the rest
ResetRow_Counters(row) ==
    [row EXCEPT !.is_completed = FALSE, !.completed_at = NoTime, !.score = 0,
                !.attempts = 0, !.hints_used = 0]

\* queryset.update(is_completed=False, completed_at=None, score=0) on one row
ResetRow(row) ==
    [row EXCEPT !.is_completed = FALSE, !.completed_at = NoTime, !.score = 0]

\* LabCompletionAdmin.reset_progress on the selected rows
ResetProgress(selected) ==
    /\ selected # {}
    /\ selected \subseteq DOMAIN labs
    /\ labs' = [k \in DOMAIN labs |-> IF k \in selected THEN ResetRow(labs[k]) ELSE labs[k]]
    /\ last' = Call("reset_progress", 0, 0, 0, 0, FALSE, <<selected>>)
    /\ UNCHANGED <<convs, msgs, nextConvId, nextMsgId, cache, now, clock, obj, procs,
                   stats, today, modules, videos>>

MaxAdminStamps == 4

\* a faulty MarkedRow: the action completes every selected row again
MarkedRow_Again(row, t) == Completed(row, DefaultScore, t)

\* mark_completed, for one row of the queryset: mark_complete() with the default
\* score at the time t, if the row is not completed
MarkedRow(row, t) == IF ~row.is_completed THEN Completed(row, DefaultScore, t) ELSE row

\* LabCompletionAdmin.mark_completed on the selected rows, taken one after the other
AdminMarkCompleted(selected) ==
    /\ selected # {}
    /\ selected \subseteq DOMAIN labs
    /\ LET open == {k \in selected : ~labs[k].is_completed}
           stamp(k) == clock + Cardinality({j \in open : j <= k})
       IN  /\ clock + Cardinality(open) <= MaxAdminStamps
           /\ labs' = [k \in DOMAIN labs |->
                          IF k \in selected THEN MarkedRow(labs[k], stamp(k)) ELSE labs[k]]
           /\ clock' = clock + Cardinality(open)
    /\ last' = Call("mark_completed", 0, 0, 0, 0, FALSE, <<selected>>)
    /\ UNCHANGED <<convs, msgs, nextConvId, nextMsgId, cache, now, obj, procs,
                   stats, today, modules, videos>>

\* the user's way through the labs
LabNext ==
    \/ \E lab \in Labs : StartLab(1, lab)
    \/ \E pk \in Labs : SubmitLab(pk, "notes", "FLAG{1}")
    \/ \E pk \in Labs : HintLab(pk)
    \/ \E pk \in Labs, score \in Scores : MarkComplete(pk, score)

\* the same, one score only, with the reset by the admin
AdminNext ==
    \/ \E lab \in Labs : StartLab(1, lab)
    \/ \E pk \in Labs : SubmitLab(pk, "notes", "FLAG{1}")
    \/ \E pk \in Labs : HintLab(pk)
    \/ \E pk \in Labs : MarkComplete(pk, 85)
    \/ \E selected \in SUBSET Labs : ResetProgress(selected)

\* labs started and completed, and the two actions of the admin
LabAdminNext ==
    \/ \E lab \in Labs : StartLab(1, lab)
    \/ \E pk \in Labs, score \in Scores : MarkComplete(pk, score)
    \/ \E selected \in SUBSET Labs : AdminMarkCompleted(selected)
    \/ \E selected \in SUBSET Labs : ResetProgress(selected)

SpecLab == Init /\ [][LabNext]_vars

SpecAdmin == Init /\ [][AdminNext]_vars

SpecLabAdmin == Init /\ [][LabAdminNext]_vars

----------------------------------------------------------------------------
(* The learning pages: learning_home and module_detail over the catalogue  *)
(* of LearningModule and LearningVideo rows, which the admin site edits.   *)

MaxVideos == 3
MaxOrder == 2

Anonymous == 0
Visitors == {Anonymous, 1}
Slugs == {"getting-started", "network-security"}
Orders == 1 .. MaxOrder
NoModule == ""

\* the admin saves a module: a new row, or is_active of the row with this slug
SaveModule(slug, is_active) ==
    /\ modules' = (slug :> [is_active |-> is_active]) @@ modules
    /\ modules' # modules
    /\ last' = Call("save_module", 0, 0, 0, 0, FALSE, <<slug>>)
    /\ UNCHANGED <<convs, msgs, nextConvId, nextMsgId, cache, now, clock, obj, procs,
                   stats, today, labs, videos>>

\* the admin saves a video of a module: (module, order) is unique, so it is a new
\* row when the module has none at this order, and is_active of that row otherwise
SaveVideo(slug, order, is_active) ==
    /\ slug \in DOMAIN modules
    /\ LET same == {v \in DOMAIN videos : videos[v].module = slug /\ videos[v].order = order}
           row == [module |-> slug, order |-> order, is_active |-> is_active]
       IN  IF same = {}
           THEN /\ Cardinality(DOMAIN videos) < MaxVideos
                /\ videos' = (Cardinality(DOMAIN videos) + 1 :> row) @@ videos
           ELSE /\ videos' = [v \in DOMAIN videos |-> IF v \in same THEN row ELSE videos[v]]
                /\ videos' # videos
    /\ last' = Call("save_video", 0, 0, 0, 0, FALSE, <<slug>>)
    /\ UNCHANGED <<convs, msgs, nextConvId, nextMsgId, cache, now, clock, obj, procs,
                   stats, today, labs, modules>>

\* the page a learning view answers with
Page(op, u, status, slug, mods, vids) ==
    Call(op, 0, 0, u, 0, FALSE,
         <<[status |-> status, slug |-> slug, modules |-> mods, videos |-> vids]>>)

\* LearningModule.objects.filter(is_active=True).prefetch_related('videos')
ActiveModules(T) == {slug \in DOMAIN T : T[slug].is_active}
Prefetched(T, V) == {v \in DOMAIN V : V[v].module \in ActiveModules(T)}

\* learning_home for a visitor u, logged in or not
LearningHome(u) ==
    /\ last' = Page("learning_home", u, 200, NoModule, ActiveModules(modules),
                    Prefetched(modules, videos))
    /\ UNCHANGED <<convs, msgs, nextConvId, nextMsgId, cache, now, clock, obj, procs,
                   stats, today, labs, modules, videos>>

\* a faulty GetModuleOr404: the module is looked up by its slug only
GetModuleOr404_AnyState(T, slug) ==
    IF slug \in DOMAIN T THEN slug ELSE NoModule

\* get_object_or_404(LearningModule, slug=slug, is_active=True); NoModule: Http404
GetModuleOr404(T, slug) ==
    IF slug \in DOMAIN T /\ T[slug].is_active THEN slug ELSE NoModule

\* module.videos.filter(is_active=True).order_by('order')
ModuleVideos(V, slug) ==
    OrderBy({v \in DOMAIN V : V[v].module = slug /\ V[v].is_active}, V, "order")

\* module_detail for a visitor u, logged in or not
ModuleDetail(u, slug) ==
    /\ LET module == GetModuleOr404(modules, slug)
       IN  last' = IF module = NoModule
                   THEN Page("module_detail", u, 404, slug, {}, << >>)
                   ELSE Page("module_detail", u, 200, slug, {module},
                             ModuleVideos(videos, module))
    /\ UNCHANGED <<convs, msgs, nextConvId, nextMsgId, cache, now, clock, obj, procs,
                   stats, today, labs, modules, videos>>

LearningNext ==
    \/ \E slug \in Slugs, is_active \in BOOLEAN : SaveModule(slug, is_active)
    \/ \E slug \in Slugs, order \in Orders, is_active \in BOOLEAN :
           SaveVideo(slug, order, is_active)
    \/ \E u \in Visitors : LearningHome(u)
    \/ \E u \in Visitors, slug \in Slugs : ModuleDetail(u, slug)

SpecLearning == Init /\ [][LearningNext]_vars

----------------------------------------------------------------------------
(* Concurrent requests on conversation 1.  Each request is a process that  *)
(* takes the statements of its operation one at a time; the store and the  *)
(* cache are shared, the instance and the queried list are its own.        *)
(* alone records that no other process has taken a step since the          *)
(* operation began.                                                        *)

\* a finished operation keeps its name and the conversation it was about
Done(op, o) == [pc |-> "done", op |-> op, obj |-> [NoObj EXCEPT !.pk = o.pk], msg |-> 0,
                ret |-> << >>, alone |-> TRUE]

\* process p takes a step to the record r: every other running or finished process
\* has been interleaved with
Step(p, r) ==
    procs' = [q \in Procs |->
                 IF q = p THEN IF r.pc = "idle" THEN Idle
                               ELSE [r EXCEPT !.alone = procs[p].alone]
                 ELSE IF procs[q].pc = "idle" THEN procs[q]
                 ELSE [procs[q] EXCEPT !.alone = FALSE]]

\* the same, for the first step of an operation
Begin(p, r) ==
    procs' = [q \in Procs |->
                 IF q = p THEN [r EXCEPT !.alone = TRUE]
                 ELSE IF procs[q].pc = "idle" THEN procs[q]
                 ELSE [procs[q] EXCEPT !.alone = FALSE]]

Free(p) == procs[p].pc \in {"idle", "done"}

\* get_object_or_404(Conversation, id=pk): the request for an append begins
BeginAppend(p, pk) ==
    /\ Free(p)
    /\ pk \in DOMAIN convs
    /\ nextMsgId <= MaxMsgs
    /\ Begin(p, [Idle EXCEPT !.pc = "insert", !.op = "append",
                             !.obj = ConversationInstance(convs, pk)])
    /\ UNCHANGED <<convs, msgs, nextConvId, nextMsgId, cache, now, clock, obj, last, stats, today, labs, modules, videos>>

\* Message.save: super().save() inserts the row; the foreign key must hold
InsertRow(p) ==
    /\ procs[p].pc = "insert"
    /\ IF procs[p].obj.pk \in DOMAIN convs /\ nextMsgId <= MaxMsgs
       THEN LET pk == nextMsgId
                t == clock + 1
                row == [conversation |-> procs[p].obj.pk, content |-> "Hello",
                        is_from_user |-> TRUE, created_at |-> t,
                        content_hash |-> Sha256Hex("Hello")]
            IN  /\ msgs' = (pk :> row) @@ msgs
                /\ clock' = t
                /\ nextMsgId' = pk + 1
                /\ Step(p, [procs[p] EXCEPT !.pc = "count", !.msg = pk,
                                            !.obj.updated_at = t])
       ELSE /\ Step(p, Idle)
            /\ UNCHANGED <<msgs, clock, nextMsgId, stats, today, labs, modules, videos>>
    /\ UNCHANGED <<convs, nextConvId, cache, now, obj, last, stats, today, labs, modules, videos>>

\* a message read from the store, and its conversation: the request for a delete begins
BeginDeleteMessage(p, m) ==
    /\ Free(p)
    /\ m \in DOMAIN msgs
    /\ Begin(p, [Idle EXCEPT !.pc = "delete_row", !.op = "delete_message", !.msg = m,
                             !.obj = ConversationInstance(convs, msgs[m].conversation)])
    /\ UNCHANGED <<convs, msgs, nextConvId, nextMsgId, cache, now, clock, obj, last, stats, today, labs, modules, videos>>

\* Message.delete: super().delete() removes the row
DeleteRow(p) ==
    /\ procs[p].pc = "delete_row"
    /\ msgs' = Without(msgs, {procs[p].msg})
    /\ Step(p, [procs[p] EXCEPT !.pc = "count"])
    /\ UNCHANGED <<convs, nextConvId, nextMsgId, cache, now, clock, obj, last, stats, today, labs, modules, videos>>

\* update_message_count: the recount, and Conversation.save up to invalidate_cache
CountRows(p) ==
    /\ procs[p].pc = "count"
    /\ LET counted == [procs[p].obj EXCEPT !.message_count = NewMessageCount(procs[p].obj, msgs)]
           saved == [counted EXCEPT !.title = DeriveTitle(counted, msgs)]
       IN  /\ cache' = InvalidateCache(cache, saved.pk, saved.user)
           /\ Step(p, [procs[p] EXCEPT !.pc = "update", !.obj = saved])
    /\ UNCHANGED <<convs, msgs, nextConvId, nextMsgId, now, clock, obj, last, stats, today, labs, modules, videos>>

\* Conversation.save: super().save(update_fields=['message_count']); a row that is
\* gone makes it raise, and the request ends there
UpdateRow(p) ==
    /\ procs[p].pc = "update"
    /\ IF procs[p].obj.pk \in DOMAIN convs
       THEN /\ convs' = SaveMessageCount(convs, procs[p].obj)
            /\ Step(p, [procs[p] EXCEPT !.pc = "invalidate"])
       ELSE /\ convs' = convs
            /\ Step(p, Idle)
    /\ UNCHANGED <<msgs, nextConvId, nextMsgId, cache, now, clock, obj, last, stats, today, labs, modules, videos>>

\* Message.save / Message.delete: the closing invalidate_cache
Invalidate(p) ==
    /\ procs[p].pc = "invalidate"
    /\ cache' = InvalidateCache(cache, procs[p].obj.pk, procs[p].obj.user)
    /\ Step(p, Done(procs[p].op, procs[p].obj))
    /\ UNCHANGED <<convs, msgs, nextConvId, nextMsgId, now, clock, obj, last, stats, today, labs, modules, videos>>

\* get_object_or_404(Conversation, id=pk): the request for a delete begins
BeginDeleteConversation(p, pk) ==
    /\ Free(p)
    /\ pk \in DOMAIN convs
    /\ Begin(p, [Idle EXCEPT !.pc = "delete_invalidate", !.op = "delete_conversation",
                             !.obj = ConversationInstance(convs, pk)])
    /\ UNCHANGED <<convs, msgs, nextConvId, nextMsgId, cache, now, clock, obj, last, stats, today, labs, modules, videos>>

\* Conversation.delete: invalidate_cache
DeleteInvalidate(p) ==
    /\ procs[p].pc = "delete_invalidate"
    /\ cache' = InvalidateCache(cache, procs[p].obj.pk, procs[p].obj.user)
    /\ Step(p, [procs[p] EXCEPT !.pc = "delete_rows"])
    /\ UNCHANGED <<convs, msgs, nextConvId, nextMsgId, now, clock, obj, last, stats, today, labs, modules, videos>>

\* Conversation.delete: super().delete() removes the messages and the row
DeleteRows(p) ==
    /\ procs[p].pc = "delete_rows"
    /\ msgs' = Without(msgs, MessagesOf(msgs, procs[p].obj.pk))
    /\ convs' = Without(convs, {procs[p].obj.pk})
    /\ Step(p, Done(procs[p].op, procs[p].obj))
    /\ UNCHANGED <<nextConvId, nextMsgId, cache, now, clock, obj, last, stats, today, labs, modules, videos>>

\* the request for a cached read: get_object_or_404(Conversation, id=pk), then
\* get_messages_cached as far as cache.get
BeginRead(p, pk) ==
    /\ Free(p)
    /\ pk \in DOMAIN convs
    /\ LET key == MessagesKey(pk)
           started == [Idle EXCEPT !.op = "get_messages",
                                   !.obj = ConversationInstance(convs, pk)]
       IN  IF CacheLive(cache, key, now)
           THEN /\ cache' = cache
                /\ Begin(p, [Done(started.op, started.obj) EXCEPT !.ret = cache[key].value])
           ELSE /\ cache' = CachePurge(cache, key, now)
                /\ Begin(p, [started EXCEPT !.pc = "query"])
    /\ UNCHANGED <<convs, msgs, nextConvId, nextMsgId, now, clock, obj, last, stats, today, labs, modules, videos>>

\* get_messages_cached: the query
Query(p) ==
    /\ procs[p].pc = "query"
    /\ Step(p, [procs[p] EXCEPT !.pc = "cache_set",
                                !.ret = ConversationMessages(msgs, procs[p].obj.pk)])
    /\ UNCHANGED <<convs, msgs, nextConvId, nextMsgId, cache, now, clock, obj, last, stats, today, labs, modules, videos>>

\* get_messages_cached: cache.set
CacheWrite(p) ==
    /\ procs[p].pc = "cache_set"
    /\ cache' = CacheSet(cache, MessagesKey(procs[p].obj.pk), procs[p].ret,
                         MessagesTimeout, now)
    /\ Step(p, [Done(procs[p].op, procs[p].obj) EXCEPT !.ret = procs[p].ret])
    /\ UNCHANGED <<convs, msgs, nextConvId, nextMsgId, now, clock, obj, last, stats, today, labs, modules, videos>>

\* the store and the cache once user 1 has created conversation 1
ConcInit ==
    /\ convs = (1 :> [user |-> 1, title |-> "", created_at |-> 1, updated_at |-> 1,
                      message_count |-> 0])
    /\ msgs = << >>
    /\ nextConvId = 2
    /\ nextMsgId = 1
    /\ cache = << >>
    /\ now = 0
    /\ clock = 1
    /\ obj = [pk |-> 1, user |-> 1, title |-> "", created_at |-> 1, updated_at |-> 1,
              message_count |-> 0]
    /\ last = Call("create", 1, 0, 1, 0, FALSE, << >>)
    /\ procs = [p \in Procs |-> Idle]
    /\ stats = << >>
    /\ today = 1
    /\ modules = << >>
    /\ videos = << >>
    /\ labs = << >>

\* appends and message deletes, interleaved
RecountNext ==
    \E p \in Procs :
        \/ BeginAppend(p, 1)
        \/ InsertRow(p)
        \/ \E m \in 1 .. MaxMsgs : BeginDeleteMessage(p, m)
        \/ DeleteRow(p)
        \/ CountRows(p)
        \/ UpdateRow(p)
        \/ Invalidate(p)

\* appends alone, interleaved
AppendRaceNext ==
    \E p \in Procs :
        \/ BeginAppend(p, 1)
        \/ InsertRow(p)
        \/ CountRows(p)
        \/ UpdateRow(p)
        \/ Invalidate(p)

\* appends, the delete of the conversation and cached reads, interleaved
ConcNext ==
    \E p \in Procs :
        \/ BeginAppend(p, 1)
        \/ InsertRow(p)
        \/ CountRows(p)
        \/ UpdateRow(p)
        \/ Invalidate(p)
        \/ BeginDeleteConversation(p, 1)
        \/ DeleteInvalidate(p)
        \/ DeleteRows(p)
        \/ BeginRead(p, 1)
        \/ Query(p)
        \/ CacheWrite(p)

SpecRecount == ConcInit /\ [][RecountNext]_vars

SpecAppends == ConcInit /\ [][AppendRaceNext]_vars

SpecConc == ConcInit /\ [][ConcNext]_vars

\* the state SpecRecount and SpecConc start in is one the store operations reach
ReachesConcInit == ~ConcInit

----------------------------------------------------------------------------
(* Claims about the store operations, under Spec *)

\* C1: after any sequence of complete appends and deletes, every conversation's
\* stored message_count is the number of message rows that belong to it
CountMatchesRows ==
    \A c \in DOMAIN convs : convs[c].message_count = Cardinality(MessagesOf(msgs, c))

\* C1 witness: a message was appended to a conversation that holds another, then one
\* was deleted from it
CountAfterDelete ==
    /\ last.op = "delete_message"
    /\ last.conv \in DOMAIN convs
    /\ convs[last.conv].message_count = 1
    /\ nextMsgId = 3

\* C2 (as claimed): an append leaves updated_at at the new message's creation time and
\* the conversation first among its owner's conversations, most recently updated first
AppendMovesConversationFirst ==
    last.op = "append" =>
        /\ obj.pk = last.conv
        /\ obj.updated_at = msgs[last.msg].created_at
        /\ UserConversations(convs, last.user, MaxConvs)[1].pk = last.conv

\* the earliest user-authored message of conversation c in M (there is one)
EarliestFromUser(M, c) ==
    CHOOSE m \in MessagesOf(M, c) :
        /\ M[m].is_from_user
        /\ \A n \in MessagesOf(M, c) :
               M[n].is_from_user => M[m].created_at <= M[n].created_at

HasFromUser(M, c) == \E m \in MessagesOf(M, c) : M[m].is_from_user

\* C6: a step gives an instance or a row a title only if the conversation then has a
\* message, and an append through an instance that has a title keeps that title, as
\* it keeps the title of every row
TitleSetOnceStep ==
    /\ last'.op \in {"create", "append"} /\ obj'.title # ""
           /\ (obj.pk # obj'.pk \/ obj.title = "")
       => MessagesOf(msgs', obj'.pk) # {}
    /\ \A c \in DOMAIN convs' :
           convs'[c].title # "" /\ (c \notin DOMAIN convs \/ convs[c].title = "")
           => MessagesOf(msgs', c) # {}
    /\ last'.op = "append" /\ nextMsgId' > nextMsgId =>
           /\ obj.title # "" => obj'.title = obj.title
           /\ \A c \in DOMAIN convs :
                  convs[c].title # "" => c \in DOMAIN convs' /\ convs'[c].title = convs[c].title

TitleSetOnce == [][TitleSetOnceStep]_vars

\* C6 witness: a second message, from the user, was appended through an instance
\* whose title came from the first
TitleKeptOverAppend ==
    /\ last.op = "append"
    /\ obj.pk = last.conv
    /\ obj.message_count = 2
    /\ \A m \in MessagesOf(msgs, obj.pk) : msgs[m].is_from_user
    /\ \E m \in MessagesOf(msgs, obj.pk) : msgs[m].content # msgs[last.msg].content
    /\ obj.title = TruncateTitle(msgs[EarliestFromUser(msgs, obj.pk)].content)
    /\ last.msg # EarliestFromUser(msgs, obj.pk)

\* the title the claim gives for a text
ClaimedTitle(text) ==
    IF Len(text) <= 50 THEN text ELSE SubSeq(text, 1, 50) \o "..."

\* C7: the first save of a new conversation leaves the title empty; the save an append
\* runs derives a title exactly when the instance has none and the conversation has a
\* user-authored message, and then it is the earliest such message's text, cut to 50
\* characters and "..." when longer
TitleDerivationStep ==
    /\ last'.op = "create" /\ nextConvId' > nextConvId => obj'.title = ""
    /\ last'.op = "append" /\ nextMsgId' > nextMsgId =>
           obj'.title =
               IF obj.title = "" /\ HasFromUser(msgs', obj.pk)
               THEN ClaimedTitle(msgs'[EarliestFromUser(msgs', obj.pk)].content)
               ELSE obj.title

TitleDerivation == [][TitleDerivationStep]_vars

\* C7 witness: a title cut to 50 characters and the marker, derived at the second
\* message because the first was not from the user
TitleTruncated ==
    /\ last.op = "append"
    /\ obj.pk = last.conv
    /\ Len(obj.title) = 53
    /\ obj.message_count = 2
    /\ \E m \in MessagesOf(msgs, obj.pk) : ~msgs[m].is_from_user

----------------------------------------------------------------------------
(* Claims about the cached reads, under SpecCache and SpecList *)

\* C3 (as claimed): when an append has completed, the cache holds no message list and
\* no lookup entry of the conversation and no conversation list of its owner, of any
\* page size
AppendLeavesNoEntry ==
    last.op = "append" =>
        /\ ~CacheLive(cache, MessagesKey(last.conv), now)
        /\ ~CacheLive(cache, ConversationKey(last.conv), now)
        /\ \A limit \in Limits :
               ~CacheLive(cache, UserConversationsLimitKey(last.user, limit), now)

\* the rows of conversation c, in creation order, as the sequence s
IsMessageList(s, M, c) ==
    /\ Len(s) = Cardinality(MessagesOf(M, c))
    /\ \A i \in 1 .. Len(s) :
           /\ s[i].pk \in MessagesOf(M, c)
           /\ s[i] = MessageInstance(M, s[i].pk)
    /\ \A i, j \in 1 .. Len(s) : i < j => s[i].created_at < s[j].created_at

\* every key but k holds in the cache after the step what it held before
OtherKeysUntouched(k) ==
    /\ DOMAIN cache' \ {k} = DOMAIN cache \ {k}
    /\ \A other \in DOMAIN cache \ {k} : cache'[other] = cache[other]

\* C9: a cached message-list read returns the entry under the conversation's key when
\* there is one that has not expired, and leaves the cache alone; otherwise it
\* returns the conversation's rows in creation order and stores that list under the
\* key, to expire 300 seconds later
MessagesReadStep ==
    last'.op = "get_messages" /\ now' = now =>
        LET key == MessagesKey(obj.pk)
        IN  /\ last'.conv = obj.pk
            /\ IF key \in DOMAIN cache /\ now < cache[key].expires
               THEN /\ last'.hit
                    /\ last'.ret = cache[key].value
                    /\ cache' = cache
               ELSE /\ ~last'.hit
                    /\ IsMessageList(last'.ret, msgs, obj.pk)
                    /\ key \in DOMAIN cache'
                    /\ cache'[key].value = last'.ret
                    /\ cache'[key].expires = now + 300
                    /\ OtherKeysUntouched(key)
            /\ UNCHANGED <<convs, msgs>>

MessagesRead == [][MessagesReadStep]_vars

\* C9 witness: an empty list, stored by an earlier read, was served from the cache
EmptyListServed ==
    /\ last.op = "get_messages"
    /\ last.hit
    /\ last.ret = << >>

\* C8: a cached read serves a message list only while it is less than 300 seconds old
\* and a conversation list only while it is less than 600 seconds old; a read that
\* meets an older entry returns the store's contents as they are then
ExpiryStep ==
    /\ last'.op = "get_messages" /\ now' = now =>
           LET key == MessagesKey(obj.pk)
           IN  /\ last'.hit => key \in DOMAIN cache /\ now - cache[key].set_at < 300
               /\ key \in DOMAIN cache /\ now - cache[key].set_at >= 300 =>
                      /\ ~last'.hit
                      /\ last'.ret = ConversationMessages(msgs, obj.pk)
    /\ last'.op = "get_user_conversations" /\ now' = now =>
           LET key == UserConversationsLimitKey(last'.user, last'.limit)
           IN  /\ last'.hit => key \in DOMAIN cache /\ now - cache[key].set_at < 600
               /\ key \in DOMAIN cache /\ now - cache[key].set_at >= 600 =>
                      /\ ~last'.hit
                      /\ last'.ret = UserConversations(convs, last'.user, last'.limit)

StaleUntilExpiry == [][ExpiryStep]_vars

\* C8 witness: a conversation list that no longer matches the store was served 300
\* seconds after it was stored
StaleListServed ==
    /\ last.op = "get_user_conversations"
    /\ last.hit
    /\ last.ret # UserConversations(convs, last.user, last.limit)
    /\ now - cache[UserConversationsLimitKey(last.user, last.limit)].set_at = TickSeconds

\* the sequence s holds at most limit conversations, all of owner uid, most recently
\* updated first
IsConversationPage(s, uid, limit) ==
    /\ Len(s) <= limit
    /\ \A i \in 1 .. Len(s) : s[i].user = uid
    /\ \A i, j \in 1 .. Len(s) : i < j => s[i].updated_at > s[j].updated_at /\ s[i].pk # s[j].pk

\* C10: a cached conversation-list read for (owner, page size) returns the entry
\* stored for that pair when there is one that has not expired; otherwise it returns
\* the owner's rows, at most the page size, most recently updated first, and stores
\* them to expire 600 seconds later.  Either way the result is a page of that owner
\* and size, and no entry of another owner or page size changes
ListReadStep ==
    last'.op = "get_user_conversations" /\ now' = now =>
        LET u == last'.user
            limit == last'.limit
            key == UserConversationsLimitKey(u, limit)
        IN  /\ IsConversationPage(last'.ret, u, limit)
            /\ IF key \in DOMAIN cache /\ now < cache[key].expires
               THEN /\ last'.hit
                    /\ last'.ret = cache[key].value
                    /\ cache' = cache
               ELSE /\ ~last'.hit
                    /\ \A i \in 1 .. Len(last'.ret) :
                           /\ last'.ret[i].pk \in DOMAIN convs
                           /\ last'.ret[i] = ConversationInstance(convs, last'.ret[i].pk)
                    /\ Len(last'.ret) =
                           LET owned == Cardinality({c \in DOMAIN convs : convs[c].user = u})
                           IN  IF owned < limit THEN owned ELSE limit
                    /\ \A c \in DOMAIN convs :
                           convs[c].user = u /\ (\A i \in 1 .. Len(last'.ret) : last'.ret[i].pk # c)
                           => \A i \in 1 .. Len(last'.ret) :
                                  last'.ret[i].updated_at > convs[c].updated_at
                    /\ key \in DOMAIN cache'
                    /\ cache'[key].value = last'.ret
                    /\ cache'[key].expires = now + 600
                    /\ OtherKeysUntouched(key)
            /\ UNCHANGED <<convs, msgs>>

ListRead == [][ListReadStep]_vars

\* C10 witness: with the lists of both owners and both page sizes cached, a page of
\* one conversation was served to an owner who has two
PageServedAmongOthers ==
    /\ last.op = "get_user_conversations"
    /\ last.hit
    /\ last.limit = 1
    /\ Len(last.ret) = 1
    /\ Cardinality({c \in DOMAIN convs : convs[c].user = last.user}) = 2
    /\ \A u \in Owners, limit \in Limits :
           CacheLive(cache, UserConversationsLimitKey(u, limit), now)

----------------------------------------------------------------------------
(* Claims about concurrent requests, under SpecConc and SpecRecount *)

Finished(p, op) == procs[p].pc = "done" /\ procs[p].op = op

\* C4 (as claimed): once a delete of a conversation and a cached read of its messages
\* have both completed, the conversation and its messages are gone and the cache
\* holds no message list for it
DeleteLeavesNoList ==
    \A p, q \in Procs :
        Finished(p, "delete_conversation") /\ Finished(q, "get_messages")
            /\ procs[q].obj.pk = procs[p].obj.pk
        => /\ procs[p].obj.pk \notin DOMAIN convs
           /\ MessagesOf(msgs, procs[p].obj.pk) = {}
           /\ MessagesKey(procs[p].obj.pk) \notin DOMAIN cache

\* C4 (amended): the delete's invalidation leaves no message list of the conversation
\* in the cache and the rows in place, its removal that follows leaves neither the row
\* nor a message of it, and a message list enters the cache only by a read writing
\* the list it queried
DeleteThenReadStep ==
    /\ \A p \in Procs :
           /\ procs[p].pc = "delete_invalidate" /\ procs'[p].pc = "delete_rows"
              => /\ MessagesKey(procs[p].obj.pk) \notin DOMAIN cache'
                 /\ UNCHANGED <<convs, msgs>>
           /\ procs[p].pc = "delete_rows" /\ procs'[p].pc = "done"
              => /\ procs[p].obj.pk \notin DOMAIN convs'
                 /\ MessagesOf(msgs', procs[p].obj.pk) = {}
    /\ \A pk \in 1 .. MaxConvs :
           MessagesKey(pk) \in DOMAIN cache' /\ MessagesKey(pk) \notin DOMAIN cache
           => \E q \in Procs :
                  /\ procs[q].op = "get_messages"
                  /\ procs[q].pc = "cache_set"
                  /\ procs'[q].pc = "done"
                  /\ procs[q].obj.pk = pk
                  /\ cache'[MessagesKey(pk)].value = procs[q].ret

DeleteThenRead == [][DeleteThenReadStep]_vars

\* C4 witness: the delete and the read have both completed, and the cache holds the
\* messages the read queried before the delete removed them
ListOutlivesConversation ==
    \E p, q \in Procs :
        /\ Finished(p, "delete_conversation")
        /\ Finished(q, "get_messages")
        /\ 1 \notin DOMAIN convs
        /\ MessagesKey(1) \in DOMAIN cache
        /\ Len(cache[MessagesKey(1)].value) = 1

\* C5: an append or delete that ran from its first statement to its last with no step
\* of another request in between leaves message_count at the number of rows
RecountHeals ==
    \A p \in Procs :
        /\ procs[p].pc = "done"
        /\ procs[p].op \in {"append", "delete_message"}
        /\ procs[p].alone
        /\ procs[p].obj.pk \in DOMAIN convs
        => convs[procs[p].obj.pk].message_count
               = Cardinality(MessagesOf(msgs, procs[p].obj.pk))

\* C5 witness: such an append has completed while another append, begun before it,
\* still holds the count it took earlier
HealedBesideStaleCount ==
    \E p, q \in Procs :
        /\ Finished(p, "append")
        /\ procs[p].alone
        /\ procs[q].pc = "update"
        /\ procs[q].obj.message_count = 1
        /\ convs[1].message_count = 2

----------------------------------------------------------------------------
(* Claims about the delete of a message, under SpecFrame *)

\* C11: a delete of a message removes that row and no other, leaves the conversation's
\* message_count at the number of its remaining rows and the cache without the
\* conversation's message list and lookup entry, and changes neither updated_at nor
\* title of the conversation, nor any other conversation
DeleteMessageStep ==
    last'.op = "delete_message" /\ msgs' # msgs =>
        LET m == last'.msg
            c == last'.conv
        IN  /\ m \in DOMAIN msgs
            /\ msgs[m].conversation = c
            /\ DOMAIN msgs' = DOMAIN msgs \ {m}
            /\ \A k \in DOMAIN msgs' : msgs'[k] = msgs[k]
            /\ DOMAIN convs' = DOMAIN convs
            /\ convs'[c].message_count
                   = Cardinality({k \in DOMAIN msgs' : msgs'[k].conversation = c})
            /\ MessagesKey(c) \notin DOMAIN cache'
            /\ ConversationKey(c) \notin DOMAIN cache'
            /\ convs'[c].updated_at = convs[c].updated_at
            /\ convs'[c].title = convs[c].title
            /\ \A d \in DOMAIN convs \ {c} : convs'[d] = convs[d]

DeleteMessageFrame == [][DeleteMessageStep]_vars

\* C11 witness: the older of two messages was deleted from a conversation that has a
\* title
TitledConversationShrunk ==
    /\ last.op = "delete_message"
    /\ last.msg = 1
    /\ 2 \in DOMAIN msgs
    /\ msgs[2].conversation = last.conv
    /\ convs[last.conv].title = TestTitle
    /\ convs[last.conv].message_count = 1

----------------------------------------------------------------------------
(* Claims about the exchange, under SpecExchange *)

\* "Hello" from the user, then "Hi there" from the AI, are the messages of c, and the
\* second has just been appended
ExchangeDone(c) ==
    /\ last.op = "append"
    /\ last.conv = c
    /\ \E m, n \in DOMAIN msgs :
           /\ m < n
           /\ last.msg = n
           /\ {k \in DOMAIN msgs : msgs[k].conversation = c} = {m, n}
           /\ msgs[m].content = "Hello" /\ msgs[m].is_from_user
           /\ msgs[n].content = "Hi there" /\ ~msgs[n].is_from_user

\* C12 (as claimed): after create, append "Hello" from the user and append "Hi there"
\* from the AI, the conversation has message_count 2 and title "Hello", and "Hello"
\* is the earlier of its two messages by creation time
ExchangeEndsTitled ==
    \A c \in DOMAIN convs :
        ExchangeDone(c) =>
            /\ convs[c].message_count = 2
            /\ convs[c].title = "Hello"
            /\ \A m, n \in DOMAIN msgs :
                   msgs[m].conversation = c /\ msgs[n].conversation = c
                       /\ msgs[m].created_at < msgs[n].created_at
                   => msgs[m].content = "Hello" /\ msgs[n].content = "Hi there"

----------------------------------------------------------------------------
(* Claims about the daily statistics, under SpecStats *)

\* the rows of T for the date d
RowsOfDate(T, d) == {k \in DOMAIN T : T[k].date = d}

\* C13: every recomputation leaves exactly one row for the day, whether or not there
\* was one before, and the row holds what the call computed from the store as it is
\* then: the conversations, the messages, the owners of a conversation, and the
\* messages per conversation
RecomputeStep ==
    last'.op = "update_daily_stats" /\ today' = today =>
        /\ Cardinality(RowsOfDate(stats', today)) = 1
        /\ \A k \in RowsOfDate(stats', today) :
               /\ stats'[k].total_conversations = Cardinality(DOMAIN convs)
               /\ stats'[k].total_messages = Cardinality(DOMAIN msgs)
               /\ stats'[k].active_users
                      = Cardinality({u \in Owners : \E c \in DOMAIN convs : convs[c].user = u})
               /\ stats'[k].avg_messages_per_conversation.num * Cardinality(DOMAIN convs)
                      = Cardinality(DOMAIN msgs) * stats'[k].avg_messages_per_conversation.den
               /\ last'.ret = <<[pk |-> k] @@ stats'[k]>>
        /\ last'.hit <=> RowsOfDate(stats, today) = {}

RecomputeInPlace == [][RecomputeStep]_vars

\* C13 witness: a call found the row of the second day and left in it one message in
\* two conversations of two owners
RowUpdatedInPlace ==
    /\ last.op = "update_daily_stats"
    /\ ~last.hit
    /\ today = 2
    /\ Cardinality(DOMAIN stats) = 2
    /\ \E k \in RowsOfDate(stats, 2) :
           /\ stats[k].total_conversations = 2
           /\ stats[k].total_messages = 1
           /\ stats[k].active_users = 2
           /\ stats[k].avg_messages_per_conversation = [num |-> 1, den |-> 2]

\* C14: with no conversation in the store the recomputation can run, and the row it
\* leaves has the average 0, no conversation and no active user
NoConversationStats ==
    DOMAIN convs = {} =>
        /\ ENABLED UpdateDailyStats
        /\ last.op = "update_daily_stats" =>
               \A k \in RowsOfDate(stats, today) :
                   /\ stats[k].avg_messages_per_conversation.num = 0
                   /\ stats[k].avg_messages_per_conversation.den > 0
                   /\ stats[k].total_conversations = 0
                   /\ stats[k].active_users = 0

\* C14 witness: the statistics were recomputed after the last conversation was deleted,
\* over a row that had counted it
StatsAfterLastDelete ==
    /\ last.op = "update_daily_stats"
    /\ ~last.hit
    /\ DOMAIN convs = {}
    /\ nextConvId > 1
    /\ Cardinality(DOMAIN stats) = 1
    /\ last.ret[1].total_conversations = 0

----------------------------------------------------------------------------
(* Claims about the content hash, under SpecEdit and SpecTitle *)

\* C15: no step changes the content_hash of a stored message that has one
HashKeptStep ==
    \A m \in DOMAIN msgs :
        msgs[m].content_hash # "" /\ m \in DOMAIN msgs'
        => msgs'[m].content_hash = msgs[m].content_hash

HashNeverRecomputed == [][HashKeptStep]_vars

\* C15 witness: a message created as "Hello" was saved with the text "Hi there" and
\* still has the hash of "Hello"
EditedMessageKeepsHash ==
    /\ last.op = "save_message"
    /\ last.msg \in DOMAIN msgs
    /\ msgs[last.msg].content = "Hi there"
    /\ msgs[last.msg].content_hash = Sha256Hex("Hello")

----------------------------------------------------------------------------
(* Claims about send_message, under SpecSend *)

\* the text is empty or has only blanks, tabs and line ends
IsBlank(text) == \A i \in 1 .. Len(text) : SubSeq(text, i, i) \in {" ", "\t", "\n"}

\* C17: a request whose message text is empty or blank is answered with status 400
\* and adds no conversation and no message, with a conversation id or without
BlankMessageStep ==
    last'.op = "send_message" /\ IsBlank(last'.ret[1].message) =>
        /\ last'.ret[1].status = 400
        /\ convs' = convs
        /\ msgs' = msgs
        /\ nextConvId' = nextConvId
        /\ nextMsgId' = nextMsgId

BlankMessageRejected == [][BlankMessageStep]_vars

\* C17 witness: a text of blanks, a tab and a line end was refused for a conversation
\* of the sender that has messages
BlankRefusedInConversation ==
    /\ last.op = "send_message"
    /\ last.ret[1].status = 400
    /\ Len(last.ret[1].message) = 3
    /\ last.conv \in DOMAIN convs
    /\ convs[last.conv].user = last.user
    /\ convs[last.conv].message_count = 2

----------------------------------------------------------------------------
(* Claims about the lab completions, under SpecLab and SpecAdmin *)

\* C18: mark_complete(score) on a row that is not completed leaves it completed, with
\* the time of the call and the score, and with the attempts, the hints and the
\* submission it had
MarkCompleteStep ==
    last'.op = "mark_complete" /\ clock' # clock =>
        LET pk == last'.conv
        IN  pk \in DOMAIN labs /\ ~labs[pk].is_completed =>
                /\ labs'[pk].is_completed
                /\ labs'[pk].completed_at = clock'
                /\ clock' > clock
                /\ labs'[pk].score = last'.ret[1]
                /\ labs'[pk].attempts = labs[pk].attempts
                /\ labs'[pk].hints_used = labs[pk].hints_used
                /\ labs'[pk].submission_notes = labs[pk].submission_notes
                /\ labs'[pk].flag_submitted = labs[pk].flag_submitted

MarkCompleteSetsThree == [][MarkCompleteStep]_vars

\* C18 witness: a lab with two attempts, a hint and a flag was completed with 85
CompletedWithScore ==
    /\ last.op = "mark_complete"
    /\ last.conv \in DOMAIN labs
    /\ labs[last.conv].is_completed
    /\ labs[last.conv].score = 85
    /\ labs[last.conv].completed_at = clock
    /\ labs[last.conv].attempts = 2
    /\ labs[last.conv].hints_used = 1
    /\ labs[last.conv].flag_submitted # ""

\* C19: a row becomes completed only by mark_complete on it; a submit adds one to
\* the attempts, records the notes and the flag and leaves is_completed as it was;
\* a row with two attempts that was never marked complete is not completed
LifecycleStep ==
    /\ \A pk \in DOMAIN labs' :
           labs'[pk].is_completed /\ (pk \notin DOMAIN labs \/ ~labs[pk].is_completed)
           => /\ pk \in DOMAIN labs
              /\ last'.op = "mark_complete"
              /\ last'.conv = pk
    /\ last'.op = "lab_submit" /\ labs' # labs =>
           LET pk == last'.conv
           IN  /\ labs'[pk].attempts = labs[pk].attempts + 1
               /\ labs'[pk].submission_notes # ""
               /\ labs'[pk].flag_submitted # ""
               /\ labs'[pk].is_completed = labs[pk].is_completed
    /\ \A pk \in DOMAIN labs' :
           labs'[pk].attempts = 2 /\ labs'[pk].completed_at = NoTime => ~labs'[pk].is_completed

OnlyMarkCompleteCompletes == [][LifecycleStep]_vars

\* C19 witness: a lab was started and submitted twice, and is not completed
TwoSubmitsNotCompleted ==
    /\ last.op = "lab_submit"
    /\ labs[last.conv].attempts = 2
    /\ labs[last.conv].hints_used = 0
    /\ labs[last.conv].completed_at = NoTime
    /\ ~labs[last.conv].is_completed
    /\ clock = 1

\* C20: the reset leaves every selected row not completed, without completion time
\* and with score 0, and with the attempts, hints, notes, flag and start it had; the
\* rows that are not selected keep every field
ResetStep ==
    last'.op = "reset_progress" =>
        LET selected == last'.ret[1]
        IN  /\ DOMAIN labs' = DOMAIN labs
            /\ \A k \in DOMAIN labs :
                   IF k \in selected
                   THEN /\ ~labs'[k].is_completed
                        /\ labs'[k].completed_at = NoTime
                        /\ labs'[k].score = 0
                        /\ labs'[k].attempts = labs[k].attempts
                        /\ labs'[k].hints_used = labs[k].hints_used
                        /\ labs'[k].submission_notes = labs[k].submission_notes
                        /\ labs'[k].flag_submitted = labs[k].flag_submitted
                        /\ labs'[k].started_at = labs[k].started_at
                   ELSE labs'[k] = labs[k]

ResetClearsThree == [][ResetStep]_vars

\* C20 witness: of two completed labs one was reset, and it has its two attempts and
\* its hint, while the other is still completed
OneOfTwoReset ==
    /\ last.op = "reset_progress"
    /\ last.ret[1] = {1}
    /\ DOMAIN labs = {1, 2}
    /\ ~labs[1].is_completed
    /\ labs[1].attempts = 2
    /\ labs[1].hints_used = 1
    /\ labs[2].is_completed
    /\ labs[2].score = 85

----------------------------------------------------------------------------
(* Claims about the learning pages, under SpecLearning *)

IsLearningPage == last.op \in {"learning_home", "module_detail"}

\* C21: a visitor who is not logged in is redirected to the login page by the
\* learning home and by a module page, and is served no module and no video
AnonymousRedirected ==
    IsLearningPage /\ last.user = Anonymous =>
        /\ last.ret[1].status = 302
        /\ last.ret[1].modules = {}
        /\ last.ret[1].videos = IF last.op = "learning_home" THEN {} ELSE << >>

\* C22: a module page lists exactly the active videos of the requested module, by
\* ascending order; for a module that is not active, or is not there, it answers
\* not found with no video
ModuleDetailStep ==
    last'.op = "module_detail" =>
        LET r == last'.ret[1]
            listed == {r.videos[i] : i \in 1 .. Len(r.videos)}
        IN  IF r.slug \in DOMAIN modules /\ modules[r.slug].is_active
            THEN /\ r.status = 200
                 /\ listed = {v \in DOMAIN videos :
                                 videos[v].module = r.slug /\ videos[v].is_active}
                 /\ Cardinality(listed) = Len(r.videos)
                 /\ \A i, j \in 1 .. Len(r.videos) :
                        i < j => videos[r.videos[i]].order < videos[r.videos[j]].order
            ELSE /\ r.status = 404
                 /\ r.videos = << >>

ModuleDetailActiveOnly == [][ModuleDetailStep]_vars

\* C22 witness: a module that is not active has an active video, and its page was
\* answered with not found, while the other module's page lists two videos that
\* were created in the opposite order
InactiveModuleNotFound ==
    /\ last.op = "module_detail"
    /\ last.ret[1].status = 404
    /\ last.ret[1].slug \in DOMAIN modules
    /\ \E v \in DOMAIN videos : videos[v].module = last.ret[1].slug /\ videos[v].is_active
    /\ \E v, w \in DOMAIN videos :
           /\ v < w /\ videos[v].order > videos[w].order
           /\ videos[v].module = videos[w].module /\ videos[v].module # last.ret[1].slug
           /\ videos[v].is_active /\ videos[w].is_active
           /\ modules[videos[v].module].is_active

----------------------------------------------------------------------------
(* Claims about the conversation views, under SpecViews, SpecSend and SpecHome *)

\* C23: a request whose lookup by id and owner finds no conversation is answered
\* with not found (404), by send_message and by the API delete too, and changes
\* no row and no cache entry
NotFoundStep ==
    LET r == last'.ret[1]
        missing == IF last'.op = "send_message"
                   THEN /\ ~IsBlank(r.message)
                        /\ r.requested # NoConversationId
                        /\ ~Owned(convs, r.requested, last'.user)
                   ELSE /\ last'.op \in {"api_delete_conversation", "delete_conversation",
                                          "conversation_detail"}
                        /\ ~Owned(convs, last'.conv, last'.user)
    IN  missing => r.status = 404 /\ UNCHANGED <<convs, msgs, cache>>

NotFoundIs404 == [][NotFoundStep]_vars

\* C25: after a send_message that derived the title, the stored conversation has
\* the non-empty title that the response and the in-memory conversation carry
ResponseTitleStored ==
    last.op = "send_message" /\ last.ret[1].status = 200 =>
        /\ last.ret[1].conversation_title # ""
        /\ obj.title = last.ret[1].conversation_title
        /\ convs[last.conv].title = last.ret[1].conversation_title

\* C26: a send_message that answers with an error leaves no new conversation and no
\* new message; one that answers with success has added one message of the user
\* and after it one of the AI, to the conversation of the response
AllOrNothingStep ==
    last'.op = "send_message" =>
        IF last'.ret[1].status = 200
        THEN \E a, b \in DOMAIN msgs' :
                /\ DOMAIN msgs' \ DOMAIN msgs = {a, b}
                /\ msgs'[a].is_from_user /\ ~msgs'[b].is_from_user
                /\ msgs'[a].created_at < msgs'[b].created_at
                /\ msgs'[a].conversation = last'.conv
                /\ msgs'[b].conversation = last'.conv
        ELSE UNCHANGED <<convs, msgs>>

SendAllOrNothing == [][AllOrNothingStep]_vars

\* C27: a request of user a leaves every conversation and message of another user
\* as it was, adds rows to a's conversations only, and shows a only conversations
\* and messages of a
IsolationStep ==
    LET a == last'.user
        r == last'.ret[1]
    IN  /\ \A pk \in DOMAIN convs :
               convs[pk].user # a => pk \in DOMAIN convs' /\ convs'[pk] = convs[pk]
        /\ \A m \in DOMAIN msgs :
               convs[msgs[m].conversation].user # a
               => m \in DOMAIN msgs' /\ msgs'[m] = msgs[m]
        /\ \A pk \in DOMAIN convs' \ DOMAIN convs : convs'[pk].user = a
        /\ \A m \in DOMAIN msgs' \ DOMAIN msgs : convs'[msgs'[m].conversation].user = a
        /\ last'.op \in {"home", "conversation_detail"} =>
               /\ \A i \in 1 .. Len(r.conversations) : r.conversations[i].user = a
               /\ \A j \in 1 .. Len(r.messages) :
                      Owned(convs, r.messages[j].conversation, a)

OwnersIsolated == [][IsolationStep]_vars

\* C27 witness: user 2 asked for the page of a conversation of user 1 that has the
\* two messages of an exchange, was answered not found, and the conversation and
\* its messages are there
ForeignConversationRefused ==
    /\ last.op = "conversation_detail"
    /\ last.user = 2
    /\ last.ret[1].status = 404
    /\ last.conv \in DOMAIN convs
    /\ convs[last.conv].user = 1
    /\ CountMessages(msgs, last.conv) = 2

\* C29: home shows the user's conversations whenever the model info is in the
\* cache, and not the error page with an empty list
HomeListWhileInfoCached ==
    last.op = "home" /\ CacheLive(cache, ModelInfoKey(last.user), now) =>
        ~last.ret[1].error

----------------------------------------------------------------------------
(* Claims about interleaved appends, under SpecAppends *)

\* C24: once two appends to a conversation have both completed, however their
\* statements interleaved, message_count is the number of the conversation's rows
BothAppendsCounted ==
    /\ \A p \in Procs : Free(p)
    /\ Cardinality({p \in Procs : Finished(p, "append")}) >= 2
    => convs[1].message_count = Cardinality(MessagesOf(msgs, 1))

----------------------------------------------------------------------------
(* Claims about the cached message list and edits, under SpecEditCache *)

\* C28: a message list in the cache is the list of the conversation's messages as
\* they are stored
CachedListIsStored ==
    \A c \in DOMAIN convs :
        MessagesKey(c) \in DOMAIN cache
        => cache[MessagesKey(c)].value = ConversationMessages(msgs, c)

----------------------------------------------------------------------------
(* Claims about the completion fields, under SpecLabAdmin *)

\* C30: after every step a row is completed exactly when it has a completion time,
\* and has score 0 when it is not completed; mark_completed of the admin completes
\* the selected rows that were not completed and leaves every other row as it was
CompletionFieldsStep ==
    /\ \A k \in DOMAIN labs' :
           /\ labs'[k].is_completed <=> labs'[k].completed_at # NoTime
           /\ ~labs'[k].is_completed => labs'[k].score = 0
    /\ last'.op = "mark_completed" =>
           /\ DOMAIN labs' = DOMAIN labs
           /\ \A k \in DOMAIN labs :
                  IF k \in last'.ret[1] /\ ~labs[k].is_completed
                  THEN labs'[k].is_completed
                  ELSE labs'[k] = labs[k]

CompletionFieldsAgree == [][CompletionFieldsStep]_vars

\* C30 witness: the admin marked two rows completed of which the first had been
\* completed with 85 before: it has its score and time, and the second is completed
\* after it with the default score
AdminCompletedTheOther ==
    /\ last.op = "mark_completed"
    /\ last.ret[1] = {1, 2}
    /\ DOMAIN labs = {1, 2}
    /\ labs[1].is_completed /\ labs[1].score = 85
    /\ labs[2].is_completed /\ labs[2].score = DefaultScore
    /\ labs[2].completed_at = clock
    /\ labs[1].completed_at < clock

====
